---- MODULE Spec2Model ----
(***************************************************************************)
(* The workflow engine (class WorkflowEngine): workflow definitions loaded *)
(* from storage, workflow instances kept in an in-memory cache and written *)
(* to a database, and the asynchronous operations startWorkflow,           *)
(* executeTransition, completeWorkflow and cancelWorkflow.                 *)
(*                                                                         *)
(* The engine runs on one JavaScript thread: code between two awaits is    *)
(* atomic, and every await is a point where another call may run.  Each    *)
(* action below is one such atomic stretch of one call: it consumes the    *)
(* outcome of the operation the call was suspended on and runs the call's  *)
(* code up to its next suspension.                                         *)
(***************************************************************************)
EXTENDS Integers, Sequences, FiniteSets, TLC

\* ----------------------------------------------------------------- bounds
MaxInstances == 1       \* instances startWorkflow may create
MaxCalls == 2           \* calls that may be in flight at the same time
MaxOps == 4             \* calls made in one run
MaxEngines == 2         \* engines constructed in the process
MaxCommands == 3        \* commands given to the engines over the bus or directly

Calls == 1..MaxCalls
Ids == 1..MaxInstances
Engines == 1..MaxEngines
Refs == 1..(MaxInstances + MaxOps)

\* ------------------------------------------------------------- JS values
Undefined == "undefined"
Null == "null"
Date == "Date"

EmptyData == [k \in {} |-> TRUE]
\* The value null given as the data of a call: reading a property of it throws.
NullInput == [null |-> TRUE]
Merge(a, b) == [k \in (DOMAIN a) \cup (DOMAIN b) |-> IF k \in DOMAIN b THEN b[k] ELSE a[k]]

JsUndefined == [t |-> "undefined", v |-> EmptyData]
JsNull == [t |-> "null", v |-> EmptyData]
JsFalse == [t |-> "false", v |-> EmptyData]
Obj(d) == [t |-> "object", v |-> d]
Truthy(x) == x.t = "object"

\* ----------------------------------------------------- workflow definition
NoCondition == [kind |-> "none", key |-> "none"]
InputIsTrue(k) == [kind |-> "inputIsTrue", key |-> k]
\* The guard `(data.<key> = true)`: an assignment, whose value is true.
SetsData(k) == [kind |-> "setsData", key |-> k]

Fn(eb) == [type |-> "function", errorBehavior |-> eb]
Ev(eb) == [type |-> "event", errorBehavior |-> eb]
Http == [type |-> "http", errorBehavior |-> "abort"]

NoTransition == [name |-> "none", from |-> "none", to |-> "none",
                 condition |-> NoCondition, actions |-> <<>>]

\* The definition of the document workflow as a row of the workflows table
\* holds it.  The actions of a stored definition are plain data: an event to
\* publish, an http request, or a 'function' action whose function a stored
\* definition cannot carry.
DocWorkflow ==
  [ id |-> "doc",
    version |-> 1,
    startState |-> "draft",
    endStates |-> {"approved", "rejected"},
    states |-> [ draft    |-> [entry |-> <<Ev("abort")>>, exit |-> <<>>],
                 review   |-> [entry |-> <<Ev("abort")>>, exit |-> <<Ev("continue")>>],
                 approved |-> [entry |-> <<>>, exit |-> <<>>],
                 rejected |-> [entry |-> <<>>, exit |-> <<>>] ],
    transitions |->
      << [name |-> "submit", from |-> "draft", to |-> "review",
          condition |-> NoCondition, actions |-> <<Ev("abort"), Http>>],
         [name |-> "approve", from |-> "review", to |-> "approved",
          condition |-> InputIsTrue("approved"), actions |-> <<Http>>],
         [name |-> "reject", from |-> "review", to |-> "draft",
          condition |-> SetsData("seen"), actions |-> <<Fn("abort"), Ev("abort")>>] >> ]

\* A later version of the row: submit now leads to a state the definition
\* does not declare.
DocWorkflowV2 ==
  [DocWorkflow EXCEPT !.version = 2,
                      !.transitions = [@ EXCEPT ![1] = [@ EXCEPT !.to = "archived"]]]

NoWorkflow ==
  [ id |-> "none", version |-> 0, startState |-> "none", endStates |-> {},
    states |-> [s \in {} |-> [entry |-> <<>>, exit |-> <<>>]],
    transitions |-> <<>> ]

WorkflowIds == {"doc"}

\* The executeTransition calls made: <<transitionName, data>>.
TransitionInputs ==
  { <<"submit", EmptyData>>, <<"reject", EmptyData>>,
    <<"approve", EmptyData>>, <<"approve", NullInput>>,
    <<"approve", [approved |-> TRUE]>> }
Entities == {"e1"}
InitialDatas == {[note |-> TRUE]}
Results == {Obj(EmptyData), JsFalse}
Reasons == {"dup"}

\* ------------------------------------------------------------------ state
VARIABLES
  database,           \* config.database: "postgres" (mysql alike) or "mongodb"
  workflowRows,       \* the active rows of the workflows table: id -> definition
  workflows,          \* this.workflows: id -> the definition loaded
  objs,               \* the instance objects, by reference
  workflowInstances,  \* this.workflowInstances: instance id -> object reference
  db,                 \* the workflow_instances table / collection: id -> row
  nextId,             \* the next id uuidv4() hands out
  calls,              \* the calls in flight, one record per slot
  okTransitions,      \* per instance: executeTransition calls that returned normally
  nCalls,             \* calls made so far
  known,              \* instance ids a caller can have learnt
  published,          \* per instance: the lifecycle events eventManager has emitted
  loaded              \* the rows the last loadWorkflows of this process read, if any

\* Several engines of one process on the one eventManager the module
\* exports: only what the engines share and what tells them apart.
VARIABLES
  listeners,          \* the engines subscribed on eventManager, in subscription order
  engineInstances,    \* per engine: the instances in its workflowInstances map
  handlers,           \* the command handlers in flight
  commands            \* the commands given so far

bus == <<listeners, engineInstances, handlers, commands>>

vars == <<database, workflowRows, workflows, objs, workflowInstances, db, nextId, calls,
          okTransitions, nCalls, known, published, loaded, bus>>

\* this.workflows.get(w)
Def(w) == workflows[w]

\* ------------------------------------------------------------ instances
\* The object startWorkflow builds (lines 182-198).
NewInstance(id, w, e, d) ==
  [ id |-> id, workflowId |-> w, entityId |-> e,
    currentState |-> Def(w).startState,
    data |-> d,
    history |-> << [state |-> Def(w).startState, transition |-> Undefined,
                    timestamp |-> Date, data |-> d] >>,
    status |-> "active",
    result |-> JsUndefined, completedAt |-> Undefined,
    cancelledAt |-> Undefined, cancelReason |-> Undefined,
    createdAt |-> Date, updatedAt |-> Date ]

NoInstance ==
  [ id |-> 0, workflowId |-> "none", entityId |-> "none", currentState |-> "none",
    data |-> EmptyData, history |-> <<>>, status |-> "none",
    result |-> JsUndefined, completedAt |-> Undefined,
    cancelledAt |-> Undefined, cancelReason |-> Undefined,
    createdAt |-> Date, updatedAt |-> Date ]

\* An executeStateActions that takes the other list of the state: the exit
\* actions where the entry actions are asked for, and the reverse.
StateActionsSwapped(workflow, state, actionType) ==
  IF state \in DOMAIN workflow.states
  THEN IF actionType = "entry" THEN workflow.states[state].exit ELSE workflow.states[state].entry
  ELSE <<>>

\* executeStateActions: the list state.actions[actionType], or nothing to run
\* when the definition has no such state.
StateActions(workflow, state, actionType) ==
  IF state \in DOMAIN workflow.states
  THEN IF actionType = "entry" THEN workflow.states[state].entry ELSE workflow.states[state].exit
  ELSE <<>>

\* The first transition with this name leaving this state (Array.find), or
\* NoTransition when find returns undefined.
FindTransition(workflow, transitionName, currentState) ==
  LET ts == workflow.transitions
      hits == {k \in 1..Len(ts) : ts[k].name = transitionName /\ ts[k].from = currentState}
  IN IF hits = {} THEN NoTransition
     ELSE ts[CHOOSE k \in hits : \A j \in hits : k <= j]

\* Whether evaluating the guard throws: `input.<key>` with input null.
ConditionThrows(condition, instanceData, transitionData) ==
  condition.kind = "inputIsTrue" /\ transitionData = NullInput

\* evaluateCondition with an evaluation error taken as a guard that holds.
evaluateConditionErrorPasses(condition, instanceData, transitionData) ==
  IF ConditionThrows(condition, instanceData, transitionData)
  THEN TRUE
  ELSE IF condition.kind = "inputIsTrue"
       THEN condition.key \in DOMAIN transitionData /\ transitionData[condition.key] = TRUE
       ELSE TRUE

\* evaluateCondition: the guard `input.<key> == true` evaluated with the
\* transition data bound to `input`; a missing key reads as undefined, and an
\* error thrown by the evaluation is caught and answered with false.
evaluateCondition(condition, instanceData, transitionData) ==
  IF ConditionThrows(condition, instanceData, transitionData)
  THEN FALSE
  ELSE IF condition.kind = "inputIsTrue"
       THEN condition.key \in DOMAIN transitionData /\ transitionData[condition.key] = TRUE
       ELSE TRUE

\* What evaluating the guard leaves in the instance data: the evaluator runs
\* the guard's text with `data` bound to the instance's own data object
\* (lines 454-466, called with instance.data at line 255), so an assignment in
\* the guard is an assignment to the instance.
ConditionEffect(condition, instanceData) ==
  IF condition.kind = "setsData"
  THEN Merge(instanceData, [k \in {condition.key} |-> TRUE])
  ELSE instanceData

\* `transition.condition && !this.evaluateCondition(...)`
ConditionRejects(t, instanceData, transitionData) ==
  t.condition.kind # "none" /\ ~evaluateCondition(t.condition, instanceData, transitionData)

\* A state change that moves currentState and leaves the history as it is.
CommitWithoutHistory(i, t, transitionName, data) ==
  [i EXCEPT !.currentState = t.to,
            !.data = Merge(i.data, data),
            !.updatedAt = Date]

\* Lines 268-280 of executeTransition: the in-memory state change.
CommitTransition(i, t, transitionName, data) ==
  [i EXCEPT !.currentState = t.to,
            !.data = Merge(i.data, data),
            !.history = Append(i.history, [state |-> t.to, transition |-> transitionName,
                                           timestamp |-> Date, data |-> data]),
            !.updatedAt = Date]

\* Lines 323-327 of completeWorkflow.
MarkCompleted(i, result) ==
  [i EXCEPT !.status = "completed", !.result = result,
            !.completedAt = Date, !.updatedAt = Date]

\* Lines 360-364 of cancelWorkflow.
MarkCancelled(i, reason) ==
  [i EXCEPT !.status = "cancelled", !.cancelReason = reason,
            !.cancelledAt = Date, !.updatedAt = Date]

\* ------------------------------------------------------------ persistence
\* JSON.stringify then JSON.parse of the history: a Date comes back as an
\* ISO string; booleans and strings come back as they were.
JsonHistory(h) ==
  [k \in 1..Len(h) |-> [h[k] EXCEPT !.timestamp = IF @ = Date THEN "ISOString" ELSE @]]

OrNull(x) == IF x \in {Undefined, ""} THEN Null ELSE x

\* The INSERT of saveWorkflowInstance (lines 523-539): nine columns, the
\* others are left NULL.
InsertRow(i) ==
  [i EXCEPT !.history = JsonHistory(i.history),
            !.result = JsNull, !.completedAt = Null,
            !.cancelledAt = Null, !.cancelReason = Null]

\* The UPDATE of saveWorkflowInstance (lines 500-520): every column but
\* created_at; `x || null` turns a falsy value into NULL.
UpdateRow(i) ==
  [i EXCEPT !.history = JsonHistory(i.history),
            !.result = IF Truthy(i.result) THEN i.result ELSE JsNull,
            !.completedAt = OrNull(i.completedAt),
            !.cancelledAt = OrNull(i.cancelledAt),
            !.cancelReason = OrNull(i.cancelReason)]

NoWrite == [kind |-> "none", row |-> NoInstance]

\* mapDatabaseInstanceToObject: the object made of the columns of a row.  The
\* row holds data, history and result as the values their JSON text parses
\* to; columns that were never set come back as null.
mapDatabaseInstanceToObject(dbInstance) ==
  [ id |-> dbInstance.id, workflowId |-> dbInstance.workflowId,
    entityId |-> dbInstance.entityId, currentState |-> dbInstance.currentState,
    data |-> dbInstance.data, history |-> dbInstance.history,
    status |-> dbInstance.status, result |-> dbInstance.result,
    createdAt |-> dbInstance.createdAt, updatedAt |-> dbInstance.updatedAt,
    completedAt |-> dbInstance.completedAt, cancelledAt |-> dbInstance.cancelledAt,
    cancelReason |-> dbInstance.cancelReason ]

\* Nothing has been emitted about an instance.
NothingPublished == [started |-> FALSE, terminals |-> 0]

\* No lifecycle event: the call has not called publishEvent.
NoEvent == [type |-> "none", instanceId |-> 0, workflowId |-> "none", entityId |-> "none",
            state |-> "none", fromState |-> "none", transition |-> "none"]

\* What the database holds once it has run the statement `wr`.  An UPDATE
\* leaves created_at alone and changes nothing when no row has the id; the
\* MongoDB updateOne with upsert stores the fields of the object.
ApplyWrite(store, wr) ==
  LET id == wr.row.id
  IN CASE wr.kind = "insert" -> (id :> wr.row) @@ store
       [] wr.kind = "update" ->
            IF id \in DOMAIN store
            THEN [store EXCEPT ![id] = [wr.row EXCEPT !.createdAt = store[id].createdAt]]
            ELSE store
       [] OTHER -> (id :> wr.row) @@ store

IdleCall ==
  [ op |-> "idle", pc |-> "idle", frame |-> "none", caller |-> "none",
    instanceId |-> 0, workflowId |-> "none", entityId |-> "none",
    transitionName |-> "none", data |-> EmptyData,
    resultArg |-> JsUndefined, reason |-> Undefined,
    inst |-> 0, cur |-> 0,
    workflow |-> NoWorkflow,
    transition |-> NoTransition, previousState |-> "none",
    phase |-> "none", hooks |-> <<>>, idx |-> 0,
    wr |-> NoWrite,
    result |-> "none", returned |-> NoInstance, emitted |-> <<>>, event |-> NoEvent,
    committed |-> FALSE,
    ran |-> <<>>, swallowed |-> <<>>, used |-> {},
    pre |-> NoInstance, preStored |-> <<>>,
    alone |-> FALSE, overlaps |-> 0, peer |-> 0 ]

InProgress(c) == calls[c].pc \notin {"idle", "done"}

Stored(id) == IF id \in DOMAIN db THEN <<db[id]>> ELSE <<>>

\* The call record of a call that starts in slot c.
NewCall(c, op) ==
  [IdleCall EXCEPT !.op = op, !.frame = op,
                   !.alone = \A d \in Calls \ {c} : ~InProgress(d),
                   !.peer = LET running == {d \in Calls \ {c} : InProgress(d)}
                            IN IF \E d \in running : running = {d} /\ calls[d].alone
                                                       /\ calls[d].overlaps = 0
                               THEN CHOOSE d \in running : TRUE ELSE 0]

\* The slots once slot c holds `rec`, a call that has just started: every
\* call in flight notes that another call started during it.
Started(c, rec) ==
  [d \in Calls |->
     IF d = c THEN rec
     ELSE IF InProgress(d)
          THEN [calls[d] EXCEPT !.overlaps = IF @ < 2 THEN @ + 1 ELSE @,
                                !.peer = IF calls[d].overlaps = 0 /\ calls[d].alone THEN c ELSE 0]
          ELSE calls[d]]

\* A finished call's record is kept for inspection until its caller takes the
\* result.  A new call takes the lowest free slot, and no call takes a step
\* while a finished call that ran without a concurrent partner is still to be
\* handed back (handing back changes nothing of the engine).
CanStart(c) ==
  /\ calls[c].pc = "idle"
  /\ nCalls < MaxOps
  /\ \A d \in Calls : d < c => calls[d].pc # "idle"

\* The reference of the next object created.
FreshRef == Cardinality(DOMAIN objs) + 1

\* The instance ids a caller can pass: the id of an instance is a fresh uuid,
\* which nobody outside the engine has before the instance's row is in the
\* table (from then on a query shows it, the actions are handed the instance
\* and the events carry the id); any other value names no instance.
Callable(id) == id \in known \/ id \notin DOMAIN workflowInstances

Settled == \A d \in Calls : calls[d].pc = "done" => calls[d].peer # 0

\* A failure that keeps hold of the call: the error is noted but the call
\* never comes to its end, as with a lock that a failing path does not release.
FailHolding(rec, err) == [rec EXCEPT !.pc = "failed", !.result = err]

Fail(rec, err) == [rec EXCEPT !.pc = "done", !.result = err]

Finish(rec, O) == [rec EXCEPT !.pc = "done", !.result = "ok", !.returned = O[rec.inst]]

\* A call that would read this.workflows again at each use of the definition
\* instead of keeping the object it got at line 238.
WorkflowReread(rec) ==
  IF rec.workflowId \in DOMAIN workflows THEN workflows[rec.workflowId] ELSE rec.workflow


\* The definition a call works with: the one it read from this.workflows when
\* it started and kept in its local `workflow`.
WorkflowInUse(rec) == rec.workflow

\* saveWorkflowInstance up to its first await: the SELECT on postgres, the
\* updateOne on mongodb (which is handed the object as it is now).
BeginSave(rec, O) ==
  IF database = "postgres"
  THEN [rec EXCEPT !.pc = "save_select"]
  ELSE [rec EXCEPT !.pc = "save_write", !.wr = [kind |-> "upsert", row |-> O[rec.cur]]]

\* Whether executeActions suspends on this action: it awaits the publishing
\* of an event; the http case and a function action without a function run
\* nothing and the loop goes on at once.
Awaits(action) == action.type = "event"

\* Whether running this action can throw.
CanFail(action) == action.type = "event"

\* A policy under which a failing action is passed over whatever it says.
RethrowsNever(action) == FALSE

\* The catch block of executeActions, lines 429-437: the error of a failing
\* action is thrown on unless the action says errorBehavior 'continue'.
Rethrows(action) == action.errorBehavior # "continue"

\* The entry of the log of a call for the action at its current position.
HookAt(rec) == [hook |-> rec.phase, index |-> rec.idx, action |-> rec.hooks[rec.idx]]

\* The payload of the lifecycle event a call hands to publishEvent (lines
\* 210-216, 289-297, 333-339, 370-376): it is built from the instance as it
\* is when publishEvent is called.
LifecycleEvent(rec, O) ==
  LET i == O[rec.cur]
  IN CASE rec.frame = "start" ->
            [type |-> "workflow:started", instanceId |-> i.id, workflowId |-> rec.workflowId,
             entityId |-> rec.entityId, state |-> rec.workflow.startState,
             fromState |-> "none", transition |-> "none"]
       [] rec.frame = "transition" ->
            [type |-> "workflow:transitioned", instanceId |-> i.id, workflowId |-> i.workflowId,
             entityId |-> i.entityId, state |-> i.currentState,
             fromState |-> rec.previousState, transition |-> rec.transitionName]
       [] rec.frame = "complete" ->
            [type |-> "workflow:completed", instanceId |-> i.id, workflowId |-> i.workflowId,
             entityId |-> i.entityId, state |-> i.currentState,
             fromState |-> "none", transition |-> "none"]
       [] OTHER ->
            [type |-> "workflow:cancelled", instanceId |-> i.id, workflowId |-> i.workflowId,
             entityId |-> i.entityId, state |-> i.currentState,
             fromState |-> "none", transition |-> "none"]

RECURSIVE AfterHooks(_, _)
RECURSIVE Advance(_, _)

\* The loop of executeActions from position idx: run the actions that do not
\* suspend, stop at the first that does, and go on with the caller's code
\* after the last.
Advance(rec, O) ==
  IF rec.idx > Len(rec.hooks)
  THEN AfterHooks(rec, O)
  ELSE IF Awaits(rec.hooks[rec.idx])
       THEN [call |-> [rec EXCEPT !.pc = "hook"], objs |-> O]
       ELSE Advance([rec EXCEPT !.ran = Append(@, HookAt(rec)), !.idx = @ + 1], O)

\* executeActions on `actions`.
EnterHooks(rec, actions, O) == Advance([rec EXCEPT !.hooks = actions, !.idx = 1], O)

\* The code that follows a hook list, up to the next await.
AfterHooks(rec, O) ==
  CASE rec.phase = "exit" ->
         EnterHooks([rec EXCEPT !.phase = "actions"], rec.transition.actions, O)
    [] rec.phase = "actions" ->
         LET i == O[rec.inst]
             O2 == [O EXCEPT ![rec.inst] =
                      CommitTransition(i, rec.transition, rec.transitionName, rec.data)]
         IN EnterHooks([rec EXCEPT !.phase = "entry", !.committed = TRUE,
                                   !.previousState = i.currentState,
                                   !.used = @ \cup {WorkflowInUse(rec).version}],
                       StateActions(WorkflowInUse(rec), O2[rec.inst].currentState, "entry"), O2)
    [] rec.phase = "entry" ->
         [call |-> BeginSave(rec, O), objs |-> O]
    [] OTHER ->
         [call |-> [rec EXCEPT !.pc = "publish", !.event = LifecycleEvent(rec, O)], objs |-> O]

\* okTransitions once the call `rec` has taken its step.
Counted(rec) ==
  IF rec.pc = "done" /\ rec.op = "transition" /\ rec.result = "ok"
  THEN [okTransitions EXCEPT ![rec.instanceId] = @ + 1]
  ELSE okTransitions

Init ==
  /\ database \in {"postgres", "mongodb"}
  /\ workflowRows = [w \in WorkflowIds |-> DocWorkflow]
  /\ workflows = [w \in {} |-> NoWorkflow]
  /\ objs = [r \in {} |-> NoInstance]
  /\ workflowInstances = [i \in {} |-> 0]
  /\ db = [i \in {} |-> NoInstance]
  /\ nextId = 1
  /\ calls = [c \in Calls |-> IdleCall]
  /\ okTransitions = [i \in Ids |-> 0]
  /\ nCalls = 0
  /\ known = {}
  /\ published = [i \in Ids |-> NothingPublished]
  /\ loaded = <<>>
  /\ listeners = <<>>
  /\ engineInstances = [e \in Engines |-> {}]
  /\ handlers = {}
  /\ commands = <<>>

\* loadWorkflows: every row the query returns is set in this.workflows under
\* its id, in one synchronous loop; entries of other ids stay as they are.
LoadWorkflows ==
  /\ workflows' = [w \in DOMAIN workflows \cup DOMAIN workflowRows |->
                     IF w \in DOMAIN workflowRows THEN workflowRows[w] ELSE workflows[w]]
  /\ loaded' = <<workflowRows>>
  /\ UNCHANGED <<known, nCalls, bus, published, database, workflowRows, objs, workflowInstances, db, nextId, calls, okTransitions>>

\* The row of a definition is replaced in the workflows table by its later
\* version (an administrator's edit; the engine only reads this table).
EditDefinition(w) ==
  /\ w \in DOMAIN workflowRows
  /\ workflowRows[w] = DocWorkflow
  /\ workflowRows' = [workflowRows EXCEPT ![w] = DocWorkflowV2]
  /\ UNCHANGED <<known, nCalls, loaded, bus, published, database, workflows, objs, workflowInstances, db, nextId, calls, okTransitions>>

\* The row of a definition is set to active = false (an administrator's
\* edit): the queries of loadWorkflows, lines 51 and 54, return it no more.
DeactivateDefinition(w) ==
  /\ w \in DOMAIN workflowRows
  /\ workflowRows' = [v \in DOMAIN workflowRows \ {w} |-> workflowRows[v]]
  /\ UNCHANGED <<known, nCalls, loaded, bus, published, database, workflows, objs, workflowInstances, db, nextId, calls, okTransitions>>

\* startWorkflow, lines 172-204: look the definition up, build the instance,
\* put it in the cache and start saving it.
StartBegin(c, w, e, d) ==
  /\ CanStart(c) /\ Settled
  /\ nCalls' = nCalls + 1 /\ known' = known
  /\ IF w \notin DOMAIN workflows
     THEN /\ calls' = Started(c, Fail([NewCall(c, "start") EXCEPT !.workflowId = w,
                                         !.entityId = e, !.data = d], "DefinitionNotFound"))
          /\ UNCHANGED <<objs, workflowInstances, nextId>>
     ELSE /\ nextId <= MaxInstances
          /\ LET id == nextId
                 r == FreshRef
                 O == (r :> NewInstance(id, w, e, d)) @@ objs
                 rec == [NewCall(c, "start") EXCEPT !.workflowId = w, !.entityId = e,
                            !.data = d, !.instanceId = id, !.inst = r, !.cur = r,
                            !.workflow = Def(w)]
             IN /\ objs' = O
                /\ workflowInstances' = (id :> r) @@ workflowInstances
                /\ nextId' = nextId + 1
                /\ calls' = Started(c, BeginSave(rec, O))
  /\ UNCHANGED <<loaded, bus, published, database, workflowRows, workflows, db, okTransitions>>

\* executeTransition, lines 228-260: find the instance in the cache, the
\* definition and the transition, check the guard, start the exit actions.
TransBegin(c, id, transitionName, data) ==
  /\ CanStart(c) /\ Settled /\ Callable(id)
  /\ nCalls' = nCalls + 1 /\ known' = known
  /\ LET rec0 == [NewCall(c, "transition") EXCEPT !.instanceId = id,
                     !.transitionName = transitionName, !.data = data]
     IN IF id \notin DOMAIN workflowInstances
        THEN /\ calls' = Started(c, Fail(rec0, "InstanceNotFound"))
             /\ objs' = objs
        ELSE LET r == workflowInstances[id]
                 i == objs[r]
                 workflow == IF i.workflowId \in DOMAIN workflows
                             THEN Def(i.workflowId) ELSE NoWorkflow
                 t == FindTransition(workflow, transitionName, i.currentState)
                 rec == [rec0 EXCEPT !.inst = r, !.cur = r, !.pre = i, !.workflow = workflow,
                                     !.used = {workflow.version},
                                     !.preStored = Stored(id), !.workflowId = i.workflowId]
             IN IF i.workflowId \notin DOMAIN workflows
                THEN calls' = Started(c, Fail(rec, "DefinitionNotFound")) /\ objs' = objs
                ELSE IF t = NoTransition
                THEN calls' = Started(c, Fail(rec, "InvalidTransition")) /\ objs' = objs
                ELSE LET O == [objs EXCEPT ![r].data = ConditionEffect(t.condition, @)]
                     IN IF ConditionRejects(t, i.data, data)
                THEN calls' = Started(c, Fail(rec, "ConditionNotMet")) /\ objs' = O
                ELSE LET next == EnterHooks([rec EXCEPT !.transition = t, !.phase = "exit"],
                                            StateActions(workflow, i.currentState, "exit"), O)
                     IN calls' = Started(c, next.call) /\ objs' = next.objs
  /\ okTransitions' = okTransitions
  /\ UNCHANGED <<loaded, bus, published, database, workflowRows, workflows, workflowInstances, db, nextId>>

\* completeWorkflow, lines 314-330: find the instance in the cache, mark it
\* completed and start saving it.
CompleteBegin(c, id, result) ==
  /\ CanStart(c) /\ Settled /\ Callable(id)
  /\ nCalls' = nCalls + 1 /\ known' = known
  /\ LET rec0 == [NewCall(c, "complete") EXCEPT !.instanceId = id, !.resultArg = result]
     IN IF id \notin DOMAIN workflowInstances
        THEN calls' = Started(c, Fail(rec0, "InstanceNotFound")) /\ objs' = objs
        ELSE LET r == workflowInstances[id]
                 O == [objs EXCEPT ![r] = MarkCompleted(@, result)]
                 rec == [rec0 EXCEPT !.inst = r, !.cur = r, !.pre = objs[r],
                                     !.preStored = Stored(id), !.workflowId = objs[r].workflowId]
             IN calls' = Started(c, BeginSave(rec, O)) /\ objs' = O
  /\ UNCHANGED <<loaded, bus, published, database, workflowRows, workflows, workflowInstances, db, nextId, okTransitions>>

\* cancelWorkflow, lines 351-367: find the instance in the cache, mark it
\* cancelled and start saving it.
CancelBegin(c, id, reason) ==
  /\ CanStart(c) /\ Settled /\ Callable(id)
  /\ nCalls' = nCalls + 1 /\ known' = known
  /\ LET rec0 == [NewCall(c, "cancel") EXCEPT !.instanceId = id, !.reason = reason]
     IN IF id \notin DOMAIN workflowInstances
        THEN calls' = Started(c, Fail(rec0, "InstanceNotFound")) /\ objs' = objs
        ELSE LET r == workflowInstances[id]
                 O == [objs EXCEPT ![r] = MarkCancelled(@, reason)]
                 rec == [rec0 EXCEPT !.inst = r, !.cur = r, !.pre = objs[r],
                                     !.preStored = Stored(id), !.workflowId = objs[r].workflowId]
             IN calls' = Started(c, BeginSave(rec, O)) /\ objs' = O
  /\ UNCHANGED <<loaded, bus, published, database, workflowRows, workflows, workflowInstances, db, nextId, okTransitions>>

\* saveWorkflowInstance on postgres, lines 491-540: the SELECT has answered;
\* the parameters of the UPDATE or INSERT are built from the object as it is
\* now and the statement is sent.  A database error (at either statement:
\* nothing is written and the call fails) is taken here.
SaveSelect(c) ==
  /\ calls[c].pc = "save_select" /\ Settled
  /\ LET rec == calls[c]
         i == objs[rec.cur]
     IN \/ calls' = [calls EXCEPT ![c] = Fail(rec, "PersistenceError")]
        \/ calls' = [calls EXCEPT ![c] =
              [rec EXCEPT !.pc = "save_write",
                          !.wr = IF i.id \in DOMAIN db
                                 THEN [kind |-> "update", row |-> UpdateRow(i)]
                                 ELSE [kind |-> "insert", row |-> InsertRow(i)]]]
  /\ UNCHANGED <<known, nCalls, loaded, bus, published, database, workflowRows, workflows, objs, workflowInstances, db, nextId, okTransitions>>

\* The write of saveWorkflowInstance has answered (lines 500-551): on
\* success the cache entry is set to the saved object and the caller goes on
\* (startWorkflow with the entry actions of the start state, the others with
\* their lifecycle event).  An INSERT of an id the table already holds is
\* refused by the table's key, and the updateOne on mongodb may fail as the
\* postgres statements may.
SaveWrite(c) ==
  /\ calls[c].pc = "save_write" /\ Settled
  /\ LET rec == calls[c]
         i == objs[rec.cur]
         saved == [rec EXCEPT !.wr = NoWrite]
     IN \/ /\ \/ rec.wr.kind = "insert" /\ rec.wr.row.id \in DOMAIN db
              \/ rec.wr.kind = "upsert"
           /\ calls' = [calls EXCEPT ![c] = Fail(saved, "PersistenceError")]
           /\ UNCHANGED <<db, workflowInstances, known>>
        \/ /\ rec.wr.kind = "insert" => rec.wr.row.id \notin DOMAIN db
           /\ db' = ApplyWrite(db, rec.wr)
           /\ known' = known \cup {i.id}
           /\ workflowInstances' = (i.id :> rec.cur) @@ workflowInstances
           /\ calls' = [calls EXCEPT ![c] =
                IF rec.frame = "start"
                THEN EnterHooks([saved EXCEPT !.phase = "start_entry"],
                       StateActions(WorkflowInUse(rec), WorkflowInUse(rec).startState, "entry"),
                       objs).call
                ELSE [saved EXCEPT !.pc = "publish", !.event = LifecycleEvent(saved, objs)]]
  /\ UNCHANGED <<loaded, nCalls, bus, published, database, workflowRows, workflows, objs, nextId, okTransitions>>

\* executeActions, lines 400-439: the action the call was suspended on has
\* finished.  A failure is rethrown unless the action says errorBehavior
\* 'continue'; otherwise the loop goes on, and after the last action so
\* does the caller.
RunHook(c) ==
  /\ calls[c].pc = "hook" /\ Settled
  /\ LET rec == calls[c]
         action == rec.hooks[rec.idx]
         ran == [rec EXCEPT !.ran = Append(@, HookAt(rec))]
         caught == [ran EXCEPT !.swallowed = Append(@, HookAt(rec))]
         Go(r) == Advance([r EXCEPT !.idx = @ + 1], objs)
     IN \/ calls' = [calls EXCEPT ![c] = Go(ran).call] /\ objs' = Go(ran).objs
        \/ /\ CanFail(action)
           /\ IF Rethrows(action)
              THEN calls' = [calls EXCEPT ![c] = Fail(ran, "ActionFailed")] /\ objs' = objs
              ELSE calls' = [calls EXCEPT ![c] = Go(caught).call] /\ objs' = Go(caught).objs
  /\ UNCHANGED <<known, nCalls, loaded, bus, published, database, workflowRows, workflows, workflowInstances, db, nextId, okTransitions>>

\* this.emit(eventType, eventData) of publishEvent (part_014, lines 292-295):
\* what the subscribers have been told about the instance of event e so far.
\* The count of terminal events stops at two.
EmitEvent(P, e) ==
  [P EXCEPT ![e.instanceId] =
     [started |-> @.started \/ e.type = "workflow:started",
      terminals |-> IF e.type \in {"workflow:completed", "workflow:cancelled"} /\ @.terminals < 2
                    THEN @.terminals + 1 ELSE @.terminals]]

\* eventManager.publishEvent of the call's lifecycle event (built when it
\* was called) has finished.
\* startWorkflow, completeWorkflow and cancelWorkflow then return;
\* executeTransition (lines 299-304) calls completeWorkflow(instanceId,
\* instance.data) when the instance is in an end state, which looks the
\* instance up in the cache, marks it completed and starts saving it.
Publish(c) ==
  /\ calls[c].pc = "publish" /\ Settled
  /\ LET rec == calls[c]
         sent == [rec EXCEPT !.emitted = Append(@, rec.event), !.event = NoEvent,
                             !.used = IF rec.frame = "transition"
                                      THEN @ \cup {WorkflowInUse(rec).version} ELSE @]
         i == objs[rec.inst]
         r2 == workflowInstances[rec.instanceId]
         O == [objs EXCEPT ![r2] = MarkCompleted(@, Obj(i.data))]
     IN \/ /\ calls' = [calls EXCEPT ![c] = Fail([rec EXCEPT !.event = NoEvent], "PublishError")]
           /\ UNCHANGED <<objs, okTransitions, published>>
        \/ /\ published' = EmitEvent(published, rec.event)
           /\ IF rec.frame = "transition" /\ i.currentState \in WorkflowInUse(rec).endStates
              THEN /\ objs' = O
                   /\ calls' = [calls EXCEPT ![c] =
                        BeginSave([sent EXCEPT !.frame = "complete", !.caller = "transition",
                                               !.cur = r2, !.resultArg = Obj(i.data)], O)]
                   /\ okTransitions' = okTransitions
              ELSE /\ objs' = objs
                   /\ calls' = [calls EXCEPT ![c] = Finish(sent, objs)]
                   /\ okTransitions' = Counted(Finish(sent, objs))
  /\ UNCHANGED <<known, nCalls, loaded, bus, database, workflowRows, workflows, workflowInstances, db, nextId>>

\* getWorkflowInstance, lines 563-568: an instance in the cache is returned
\* as it is; otherwise the row is asked for.
GetBegin(c, id) ==
  /\ CanStart(c) /\ Settled /\ Callable(id)
  /\ nCalls' = nCalls + 1
  /\ LET rec == [NewCall(c, "get") EXCEPT !.instanceId = id]
     IN calls' = Started(c, IF id \in DOMAIN workflowInstances
                            THEN Finish([rec EXCEPT !.inst = workflowInstances[id]], objs)
                            ELSE [rec EXCEPT !.pc = "get_select"])
  /\ UNCHANGED <<known, loaded, bus, published, database, workflowRows, workflows, objs, workflowInstances, db, nextId, okTransitions>>

\* getWorkflowInstance, lines 570-602: the query has answered.  A row found
\* is made into a new object (on postgres through
\* mapDatabaseInstanceToObject, on mongodb the document itself), which is
\* put in the cache and returned; with no row the call returns null.
GetSelect(c) ==
  /\ calls[c].pc = "get_select" /\ Settled
  /\ LET rec == calls[c]
         id == rec.instanceId
         r == FreshRef
         O == (r :> IF database = "postgres"
                    THEN mapDatabaseInstanceToObject(db[id]) ELSE db[id]) @@ objs
     IN \/ /\ calls' = [calls EXCEPT ![c] = Fail(rec, "PersistenceError")]
           /\ UNCHANGED <<objs, workflowInstances>>
        \/ IF id \in DOMAIN db
           THEN /\ objs' = O
                /\ workflowInstances' = (id :> r) @@ workflowInstances
                /\ calls' = [calls EXCEPT ![c] = Finish([rec EXCEPT !.inst = r], O)]
           ELSE /\ calls' = [calls EXCEPT ![c] = [rec EXCEPT !.pc = "done", !.result = "ok"]]
                /\ UNCHANGED <<objs, workflowInstances>>
  /\ UNCHANGED <<known, nCalls, loaded, bus, published, database, workflowRows, workflows, db, nextId, okTransitions>>

\* getWorkflowInstancesForEntity, lines 628-664: the query for the rows of
\* an entity is sent (no option is given).
ListBegin(c, e) ==
  /\ CanStart(c) /\ Settled
  /\ nCalls' = nCalls + 1
  /\ calls' = Started(c, [NewCall(c, "list") EXCEPT !.entityId = e, !.pc = "list_select"])
  /\ UNCHANGED <<known, loaded, bus, published, database, workflowRows, workflows, objs, workflowInstances, db, nextId, okTransitions>>

\* The rows the query of getWorkflowInstancesForEntity finds.  On postgres
\* the rows with that entity_id; on mongodb the filter names the field
\* entity_id, which no stored document has (updateOne stores the instance
\* with its own field names, entityId among them), so nothing is found.
RowsForEntity(e) ==
  IF database = "postgres" THEN {id \in DOMAIN db : db[id].entityId = e} ELSE {}

\* getWorkflowInstancesForEntity, lines 664-705: the query has answered.
\* Every row found is made into a new object by mapDatabaseInstanceToObject
\* and set in the cache under its id, whatever the cache held for that id.
ListSelect(c) ==
  /\ calls[c].pc = "list_select" /\ Settled
  /\ LET rec == calls[c]
         found == RowsForEntity(rec.entityId)
         n == Cardinality(DOMAIN objs)
         RefOf(id) == n + Cardinality({j \in found : j <= id})
         IdAt(r) == CHOOSE id \in found : RefOf(id) = r
         O == [r \in DOMAIN objs \cup {RefOf(id) : id \in found} |->
                 IF r \in DOMAIN objs THEN objs[r]
                 ELSE mapDatabaseInstanceToObject(db[IdAt(r)])]
     IN \/ /\ calls' = [calls EXCEPT ![c] = Fail(rec, "PersistenceError")]
           /\ UNCHANGED <<objs, workflowInstances>>
        \/ /\ objs' = O
           /\ workflowInstances' =
                [id \in DOMAIN workflowInstances \cup found |->
                   IF id \in found THEN RefOf(id) ELSE workflowInstances[id]]
           /\ calls' = [calls EXCEPT ![c] = [rec EXCEPT !.pc = "done", !.result = "ok"]]
  /\ UNCHANGED <<known, nCalls, loaded, bus, published, database, workflowRows, workflows, db, nextId, okTransitions>>

\* The process is stopped with no call in flight and a new engine is
\* constructed over the same database: both maps start empty.
Restart ==
  /\ \A c \in Calls : calls[c].pc = "idle"
  /\ nCalls < MaxOps
  /\ nCalls' = nCalls + 1
  /\ workflows' = [w \in {} |-> NoWorkflow]
  /\ objs' = [r \in {} |-> NoInstance]
  /\ workflowInstances' = [i \in {} |-> 0]
  /\ loaded' = <<>>
  /\ UNCHANGED <<known, bus, published, database, workflowRows, db, nextId, calls, okTransitions>>

\* The caller has taken the result of a finished call; the slot is free.
Return(c) ==
  /\ calls[c].pc = "done"
  /\ calls' = [d \in Calls |->
                 IF d = c THEN IdleCall
                 ELSE [calls[d] EXCEPT !.peer = IF @ = c THEN 0 ELSE @]]
  /\ UNCHANGED <<known, nCalls, loaded, bus, published, database, workflowRows, workflows, objs, workflowInstances, db, nextId, okTransitions>>

Next ==
  \/ LoadWorkflows
  \/ \E c \in Calls, w \in WorkflowIds, e \in Entities, d \in InitialDatas : StartBegin(c, w, e, d)
  \/ \E c \in Calls, id \in Ids, in \in TransitionInputs : TransBegin(c, id, in[1], in[2])
  \/ \E c \in Calls, id \in Ids, r \in Results : CompleteBegin(c, id, r)
  \/ \E c \in Calls, id \in Ids, r \in Reasons : CancelBegin(c, id, r)
  \/ \E c \in Calls, id \in Ids : GetBegin(c, id)
  \/ \E c \in Calls : GetSelect(c)
  \/ \E c \in Calls, e \in Entities : ListBegin(c, e)
  \/ \E c \in Calls : ListSelect(c)
  \/ \E c \in Calls : SaveSelect(c)
  \/ \E c \in Calls : SaveWrite(c)
  \/ \E c \in Calls : RunHook(c)
  \/ \E c \in Calls : Publish(c)
  \/ \E c \in Calls : Return(c)

Spec == Init /\ [][Next]_vars

\* The runs in which the calls are made one after the other: a call starts
\* only when no other call is in flight.
OneAtATime == \A c, d \in Calls : (InProgress(c) /\ InProgress(d)) => c = d

NextSeq == Next /\ OneAtATime'

SpecSeq == Init /\ [][NextSeq]_vars

\* The engine in its environment: the rows of the workflows table are
\* edited while it runs, and the process is restarted.
NextEnvAll ==
  \/ Next
  \/ \E w \in WorkflowIds : EditDefinition(w)
  \/ \E w \in WorkflowIds : DeactivateDefinition(w)
  \/ Restart

SpecEnvAll == Init /\ [][NextEnvAll]_vars

\* The same with the calls made one after the other: edits, reloads and
\* restarts still fall between the steps of the call in flight.
NextEnv == NextEnvAll /\ OneAtATime'

SpecEnv == Init /\ [][NextEnv]_vars

\* ------------------------------------------------- engines on one bus
\* The engine state above is left alone by the actions of this part.
Engine1 == <<database, workflowRows, workflows, objs, workflowInstances, db, nextId, calls,
             okTransitions, nCalls, known, published, loaded>>

Subscribed(e) == \E k \in 1..Len(listeners) : listeners[k] = e

\* Every instance some engine holds.
AllInstances == UNION {engineInstances[e] : e \in Engines}

\* uuidv4(): an id no instance has.
FreshUuid == Cardinality({i.id : i \in AllInstances}) + 1

\* initialize (lines 19-33) of one more engine: after loading the
\* definitions, setupEventListeners (lines 83-91) subscribes the engine's
\* handlers on eventManager, the one object the events module exports.
Initialize(e) ==
  /\ ~Subscribed(e)
  /\ listeners' = Append(listeners, e)
  /\ UNCHANGED <<engineInstances, handlers, commands, Engine1>>

\* startWorkflow up to its first await (lines 172-204), in engine e, for the
\* command numbered k: the new instance is in the map of that engine.
StartedIn(E, e, k, id) ==
  [E EXCEPT ![e] = @ \cup {[id |-> id, status |-> "active", command |-> k]}]

\* startWorkflow called on engine e itself.
DirectStart(e) ==
  /\ Subscribed(e) /\ Len(commands) < MaxCommands
  /\ commands' = Append(commands, [type |-> "direct", id |-> FreshUuid])
  /\ engineInstances' = StartedIn(engineInstances, e, Len(commands) + 1, FreshUuid)
  /\ handlers' = handlers \cup {[engine |-> e, command |-> Len(commands) + 1]}
  /\ UNCHANGED <<listeners, Engine1>>

\* publishEvent('workflow:start', ...) (part_014, lines 270-303): emit calls
\* the listeners one after the other, in subscription order, and each
\* listener, handleWorkflowStart of its engine (lines 96-110), runs
\* startWorkflow up to its first await: every subscribed engine makes an
\* instance of its own, with an id of its own.
RECURSIVE EmitStart(_, _, _)
EmitStart(E, k, n) ==
  IF n > Len(listeners) THEN E
  ELSE EmitStart(StartedIn(E, listeners[n], k,
                           Cardinality({i.id : i \in UNION {E[e] : e \in Engines}}) + 1),
                 k, n + 1)

BusStart ==
  /\ Len(commands) < MaxCommands
  /\ commands' = Append(commands, [type |-> "start", id |-> 0])
  /\ engineInstances' = EmitStart(engineInstances, Len(commands) + 1, 1)
  /\ handlers' = handlers \cup {[engine |-> listeners[n], command |-> Len(commands) + 1] :
                                  n \in 1..Len(listeners)}
  /\ UNCHANGED <<listeners, Engine1>>

\* publishEvent('workflow:cancel', {instanceId}): handleWorkflowCancel of
\* every subscribed engine (lines 153-167) runs cancelWorkflow up to its
\* first await (lines 351-367); the engine that has the instance marks it
\* cancelled, an engine that has not throws.
BusCancel(id) ==
  /\ Len(commands) < MaxCommands
  /\ \E i \in AllInstances : i.id = id
  /\ commands' = Append(commands, [type |-> "cancel", id |-> id])
  /\ engineInstances' =
       [e \in Engines |->
          IF Subscribed(e)
          THEN {IF i.id = id THEN [i EXCEPT !.status = "cancelled"] ELSE i : i \in engineInstances[e]}
          ELSE engineInstances[e]]
  /\ handlers' = handlers \cup {[engine |-> e, command |-> Len(commands) + 1] :
                                  e \in {f \in Engines : Subscribed(f)
                                                          /\ \E i \in engineInstances[f] : i.id = id}}
  /\ UNCHANGED <<listeners, Engine1>>

\* What a handler awaited (its save, its actions, its lifecycle event) has
\* settled, with success or with an error; the handler is over.
HandlerEnds(h) ==
  /\ h \in handlers
  /\ handlers' = handlers \ {h}
  /\ UNCHANGED <<listeners, engineInstances, commands, Engine1>>

NextBus ==
  \/ \E e \in Engines : Initialize(e)
  \/ \E e \in Engines : DirectStart(e)
  \/ BusStart
  \/ \E id \in 1..(MaxEngines * MaxCommands) : BusCancel(id)
  \/ \E h \in handlers : HandlerEnds(h)

SpecBus == Init /\ [][NextBus]_vars

\* ================================================================= claims
Done(c) == calls[c].pc = "done"

\* The object the cache holds for an instance id.
Cached(id) == objs[workflowInstances[id]]

HasEvent(c, type) == \E k \in 1..Len(calls[c].emitted) : calls[c].emitted[k].type = type

\* No call on this instance is in flight.
Quiescent(id) == \A c \in Calls : InProgress(c) => calls[c].instanceId # id

\* The instances executeTransition(rec.transitionName, rec.data) can leave when
\* it runs alone on instance i and ends the way rec ended.
SeqOutcomes(i, rec) ==
  LET w == rec.workflow
      t == FindTransition(w, rec.transitionName, i.currentState)
      fires == t # NoTransition /\ ~ConditionRejects(t, i.data, rec.data)
      guarded == [i EXCEPT !.data = ConditionEffect(t.condition, @)]
      committed == CommitTransition(guarded, t, rec.transitionName, rec.data)
      completed == MarkCompleted(committed, Obj(committed.data))
      ends == t.to \in w.endStates
  IN IF rec.result = "ok"
     THEN IF fires THEN {IF ends THEN completed ELSE committed} ELSE {}
     ELSE {i, guarded}
            \cup (IF fires THEN {committed} \cup (IF ends THEN {completed} ELSE {}) ELSE {})

\* Two executeTransition calls on one instance that overlapped, the first
\* started with nothing else in flight, and both have finished.
RacedPair(c1, c2) ==
  /\ c1 # c2 /\ Done(c1) /\ Done(c2)
  /\ calls[c1].op = "transition" /\ calls[c2].op = "transition"
  /\ calls[c1].inst # 0 /\ calls[c2].inst # 0
  /\ calls[c1].instanceId = calls[c2].instanceId
  /\ calls[c1].alone /\ calls[c1].peer = c2 /\ calls[c2].peer = c1

\* C1: two executeTransition calls in flight together on one instance leave
\* the instance as running them one after the other, in one of the two
\* orders, would.
C1_Serializable ==
  \A c1, c2 \in Calls :
    RacedPair(c1, c2) =>
      LET base == calls[c1].pre
          final == Cached(calls[c1].instanceId)
      IN final \in (UNION {SeqOutcomes(m, calls[c2]) : m \in SeqOutcomes(base, calls[c1])})
                   \cup (UNION {SeqOutcomes(m, calls[c1]) : m \in SeqOutcomes(base, calls[c2])})

\* C2: at most one start / transition / complete / cancel call is in progress
\* on any one instance id.
C2_MutualExclusion ==
  \A c1, c2 \in Calls :
    (c1 # c2 /\ InProgress(c1) /\ InProgress(c2) /\ calls[c1].inst # 0 /\ calls[c2].inst # 0)
      => calls[c1].instanceId # calls[c2].instanceId

\* C3: an executeTransition or cancel call on an instance that is not active
\* fails, leaves the instance as it was and publishes no lifecycle event.
C3_TerminalRejects ==
  \A c \in Calls :
    (Done(c) /\ calls[c].op \in {"transition", "cancel"}
       /\ calls[c].inst # 0 /\ calls[c].pre.status # "active")
      => /\ calls[c].result # "ok"
         /\ Cached(calls[c].instanceId) = calls[c].pre
         /\ calls[c].emitted = <<>>

\* C4: the status of an instance that is completed or cancelled never changes
\* again.
C4_StatusOneWay ==
  [][\A r \in DOMAIN objs : objs[r].status # "active" => objs'[r].status = objs[r].status]_vars

\* C5: an executeTransition call that fails in one of its actions leaves the
\* instance, in the cache and in storage, as it was before the call.
C5_FailedTransitionUnchanged ==
  \A c \in Calls :
    (Done(c) /\ calls[c].op = "transition" /\ calls[c].result = "ActionFailed")
      => /\ Cached(calls[c].instanceId) = calls[c].pre
         /\ Stored(calls[c].instanceId) = calls[c].preStored

\* The transitions of a definition with this name that leave this state.
Matching(w, transitionName, state) ==
  {k \in 1..Len(w.transitions) :
     w.transitions[k].name = transitionName /\ w.transitions[k].from = state}

\* C6: executeTransition changes currentState only when exactly one transition
\* of the definition has the name and leaves the state the instance is in and
\* its condition holds; a call that does not change the state fails.
C6_OnlyMatchingTransition ==
  \A c \in Calls :
    calls[c].op = "transition" =>
      LET w == calls[c].workflow
          m == Matching(w, calls[c].transitionName, calls[c].previousState)
      IN /\ calls[c].committed =>
              /\ Cardinality(m) = 1
              /\ \A k \in m : ~ConditionRejects(w.transitions[k], calls[c].pre.data, calls[c].data)
         /\ (Done(c) /\ ~calls[c].committed) => calls[c].result # "ok"

\* C7: the history of an instance has one entry more than the number of
\* executeTransition calls on it that ended successfully.
C7_HistoryLength ==
  \A id \in DOMAIN workflowInstances :
    Quiescent(id) => Len(Cached(id).history) = 1 + okTransitions[id]

\* C8: a successful startWorkflow returns an active instance in the start
\* state, holding the initial data and one history entry for the start state,
\* and publishes workflow:started.
C8_StartResult ==
  \A c \in Calls :
    (Done(c) /\ calls[c].op = "start" /\ calls[c].result = "ok") =>
      LET r == calls[c].returned
          start == calls[c].workflow.startState
      IN /\ r.currentState = start
         /\ r.status = "active"
         /\ r.data = calls[c].data
         /\ Len(r.history) = 1 /\ r.history[1].state = start
         /\ HasEvent(c, "workflow:started")

\* C9: a startWorkflow call that fails in an entry action of the start state
\* leaves no row for the new instance in storage and publishes no event.
C9_FailedStartNotPersisted ==
  \A c \in Calls :
    (Done(c) /\ calls[c].op = "start" /\ calls[c].result = "ActionFailed")
      => /\ calls[c].instanceId \notin DOMAIN db
         /\ calls[c].emitted = <<>>

\* C10: a successful executeTransition into an end state returns the instance
\* completed, its result being its merged data, and publishes
\* workflow:completed.
C10_EndStateCompletes ==
  \A c \in Calls :
    (Done(c) /\ calls[c].op = "transition" /\ calls[c].result = "ok"
       /\ calls[c].transition.to \in calls[c].workflow.endStates)
      => /\ calls[c].returned.status = "completed"
         /\ calls[c].returned.result = Obj(calls[c].returned.data)
         /\ HasEvent(c, "workflow:completed")

\* A call of this operation returns normally in this step.
Returns(c, op) ==
  /\ calls[c].op = op /\ calls[c].pc # "done"
  /\ calls'[c].pc = "done" /\ calls'[c].result = "ok"

\* C11: when an executeTransition call returns normally, the instance
\* getWorkflowInstance then returns for its id (the cached one) is in the `to`
\* state of the transition the call matched.
C11_TransitionReachesTarget ==
  [][\A c \in Calls :
       Returns(c, "transition")
         => Cached(calls[c].instanceId)'.currentState = calls'[c].transition.to]_vars

\* Whether a guard holds for these data, read off the data: `input.<key> ==
\* true` holds only when the data have the key with the value true; an
\* assignment of true holds always.
GuardHolds(condition, data) ==
  condition.kind \in {"none", "setsData"}
    \/ (condition.kind = "inputIsTrue" /\ condition.key \in DOMAIN data
          /\ data[condition.key] = TRUE)

\* In this step an executeTransition call starts on an instance in the cache
\* for a transition that leaves the instance's state and whose guard does not
\* hold for the data given.
BeginsWithGuardFalse(c) ==
  /\ calls[c].pc = "idle" /\ calls'[c].op = "transition" /\ calls'[c].inst # 0
  /\ LET w == calls'[c].workflow
         m == Matching(w, calls'[c].transitionName, calls'[c].pre.currentState)
     IN m # {} /\ \A k \in m : ~GuardHolds(w.transitions[k].condition, calls'[c].data)

\* C12: an executeTransition call for a transition whose guard is false (the
\* field it reads is missing from the data, or reading it throws) ends at once
\* with ConditionNotMet: no action has run, no event is published, and the
\* cache and the table are as they were.
C12_GuardFalseRejects ==
  [][\A c \in Calls :
       BeginsWithGuardFalse(c)
         => /\ calls'[c].pc = "done" /\ calls'[c].result = "ConditionNotMet"
            /\ calls'[c].ran = <<>> /\ calls'[c].emitted = <<>>
            /\ objs' = objs /\ db' = db /\ workflowInstances' = workflowInstances]_vars

\* An approve call given null as its data, on an active instance in review,
\* has ended with ConditionNotMet and the instance is as it was.
C12_Witness ==
  \E c \in Calls :
    /\ Done(c) /\ calls[c].op = "transition" /\ calls[c].result = "ConditionNotMet"
    /\ calls[c].data = NullInput
    /\ calls[c].pre.currentState = "review" /\ calls[c].pre.status = "active"
    /\ Cached(calls[c].instanceId) = calls[c].pre

\* In this step a call starts that the engine is to refuse on validation: it
\* ends in the step with one of the validation errors, or it is made on an
\* instance that is no longer active.
BeginsInvalid(c) ==
  /\ calls[c].pc = "idle"
  /\ calls'[c].op \in {"start", "transition", "complete", "cancel"}
  /\ \/ calls'[c].result \in {"DefinitionNotFound", "InstanceNotFound",
                              "InvalidTransition", "ConditionNotMet"}
     \/ /\ calls'[c].op \in {"transition", "complete", "cancel"}
        /\ calls'[c].inst # 0 /\ calls'[c].pre.status # "active"

\* C13: a call refused on validation (DefinitionNotFound, InstanceNotFound,
\* InvalidTransition, ConditionNotMet, or a call on an instance that is not
\* active) ends at once, changes no cached instance and no stored row, runs no
\* action and publishes no event.
C13_ValidationFailureChangesNothing ==
  [][\A c \in Calls :
       BeginsInvalid(c)
         => /\ calls'[c].pc = "done" /\ calls'[c].result # "ok"
            /\ calls'[c].ran = <<>> /\ calls'[c].emitted = <<>>
            /\ objs' = objs /\ db' = db /\ workflowInstances' = workflowInstances]_vars

\* C14: executeTransition, completeWorkflow and cancelWorkflow end with
\* InstanceNotFound only on an id that has no stored row either: an instance
\* that is in storage but not in the cache of this engine is still operated on.
C14_NotFoundOnlyIfAbsentFromStore ==
  [][\A c \in Calls :
       ( /\ calls[c].pc # "done" /\ calls'[c].pc = "done"
         /\ calls'[c].op \in {"transition", "complete", "cancel"}
         /\ calls'[c].result = "InstanceNotFound" )
         => calls'[c].instanceId \notin DOMAIN db]_vars

\* C15: the currentState of every cached instance and of every stored row is
\* a key of `states` of the loaded definition of its workflow.
C15_CurrentStateIsAState ==
  /\ \A id \in DOMAIN workflowInstances :
       Cached(id).workflowId \in DOMAIN workflows
         => Cached(id).currentState \in DOMAIN workflows[Cached(id).workflowId].states
  /\ \A id \in DOMAIN db :
       db[id].workflowId \in DOMAIN workflows
         => db[id].currentState \in DOMAIN workflows[db[id].workflowId].states

\* C16: every registered definition is valid: startState and every end state
\* are keys of states, the from and to of every transition are keys of states,
\* and no two transitions have the same name and the same from.
C16_RegisteredDefinitionsAreValid ==
  \A w \in DOMAIN workflows :
    LET definition == workflows[w]
        names == DOMAIN definition.states
        ts == definition.transitions
    IN /\ definition.startState \in names
       /\ definition.endStates \subseteq names
       /\ \A k \in DOMAIN ts : ts[k].from \in names /\ ts[k].to \in names
       /\ \A j, k \in DOMAIN ts :
            (ts[j].name = ts[k].name /\ ts[j].from = ts[k].from) => j = k

\* C17: a reload sets the registered definitions to the stored rows in one
\* step in which no call moves, and an executeTransition call takes the
\* transition, the states and the end states from one version of the
\* definition, whatever is loaded while it is in flight.
C17_AtomicReloadOneSnapshot ==
  [][ /\ \A c \in Calls :
           calls'[c].op = "transition" => Cardinality(calls'[c].used) <= 1
      /\ (workflows' # workflows /\ DOMAIN workflows' # {}) =>
           /\ calls' = calls /\ objs' = objs /\ db' = db
           /\ \A w \in DOMAIN workflowRows : workflows'[w] = workflowRows[w] ]_vars

\* A submit call that began under version 1 has committed to review, the
\* target version 1 gives, and is suspended before its end-state check while
\* version 2, in which submit leads elsewhere, is the one registered.
C17_Witness ==
  \E c \in Calls :
    /\ calls[c].op = "transition" /\ calls[c].frame = "transition"
    /\ calls[c].pc = "publish" /\ calls[c].committed
    /\ calls[c].transitionName = "submit"
    /\ calls[c].used = {1}
    /\ calls[c].workflowId \in DOMAIN workflows
    /\ workflows[calls[c].workflowId].version = 2
    /\ objs[calls[c].inst].currentState = "review"

\* C18: an executeTransition call in which an action with errorBehavior
\* 'continue' failed, and which returned normally, has committed, and the
\* history entry it appended records the failure in a metadata field.
C18_ContinueFailureInHistory ==
  \A c \in Calls :
    (Done(c) /\ calls[c].op = "transition" /\ calls[c].result = "ok"
       /\ calls[c].swallowed # <<>>)
      => /\ calls[c].committed
         /\ LET history == calls[c].returned.history
            IN "metadata" \in DOMAIN history[Len(history)]

\* C19: the actions an executeTransition call has run, in the order in which
\* they finished, and the action it is suspended on, are an initial part of:
\* the exit actions of the state the instance was in, then the actions of the
\* transition, then the entry actions of the transition's target, each list in
\* the order the definition gives; entry actions run only after the commit.
C19_HookOrder ==
  \A c \in Calls :
    (calls[c].op = "transition" /\ calls[c].transition # NoTransition) =>
      LET rec == calls[c]
          states == rec.workflow.states
          Tagged(list, hook) ==
            [k \in 1..Len(list) |-> [hook |-> hook, index |-> k, action |-> list[k]]]
          order == Tagged(states[rec.pre.currentState].exit, "exit")
                     \o Tagged(rec.transition.actions, "actions")
                     \o Tagged(states[rec.transition.to].entry, "entry")
          log == IF rec.pc = "hook"
                 THEN Append(rec.ran, [hook |-> rec.phase, index |-> rec.idx,
                                       action |-> rec.hooks[rec.idx]])
                 ELSE rec.ran
      IN /\ Len(log) <= Len(order)
         /\ \A k \in 1..Len(log) : log[k] = order[k]
         /\ (\E k \in 1..Len(log) : log[k].hook = "entry") => rec.committed
         /\ (Done(c) /\ rec.result = "ok") => log = order

\* A reject call has returned normally after running the exit action of
\* review, its own two actions and the entry action of draft.
C19_Witness ==
  \E c \in Calls :
    /\ Done(c) /\ calls[c].op = "transition" /\ calls[c].result = "ok"
    /\ calls[c].transitionName = "reject"
    /\ Len(calls[c].ran) = 4
    /\ calls[c].ran[1].hook = "exit" /\ calls[c].ran[4].hook = "entry"

\* C20: a write never replaces a stored row by an older state of the
\* instance: the history, to which every commit adds an entry, is never
\* shorter in the row written than in the row it replaces.
C20_NoStaleOverwrite ==
  [][\A id \in DOMAIN db :
       Len(db'[id].history) >= Len(db[id].history)]_vars

\* The step a call in flight takes when what it awaits settles, and the
\* handing back of its result.
CallStep(c) ==
  \/ SaveSelect(c) \/ SaveWrite(c) \/ RunHook(c) \/ Publish(c)
  \/ GetSelect(c) \/ ListSelect(c) \/ Return(c)

\* The engine, its calls made one after the other, with collaborators that
\* answer: every query, write and publishEvent a call awaits settles, with
\* success or with an error.
SpecSeqFair == SpecSeq /\ \A c \in Calls : WF_vars(CallStep(c) /\ OneAtATime')

\* C21: no failure leaves an instance blocked.  Whatever calls have failed
\* before, a cancel call on an instance whose row is stored can start, and get
\* past its lookup, as soon as a slot is free, and every call that has started
\* comes to its end.
C21_NoDeadlock ==
  /\ [](\A c \in Calls, id \in known :
          (CanStart(c) /\ Settled)
            => ENABLED (CancelBegin(c, id, "dup") /\ InProgress(c)'))
  /\ \A c \in Calls : InProgress(c) ~> Done(c)

\* A cancel call has returned normally on an instance that an earlier call,
\* which failed after its commit, had left ahead of its stored row.
C21_Witness ==
  \E c \in Calls :
    /\ Done(c) /\ calls[c].op = "cancel" /\ calls[c].result = "ok"
    /\ calls[c].preStored # <<>>
    /\ Len(calls[c].pre.history) > Len(calls[c].preStored[1].history)
    /\ calls[c].returned.status = "cancelled"

\* The steps of a call other than the settling of an action it awaits.
EngineStep(c) ==
  \/ SaveSelect(c) \/ SaveWrite(c) \/ Publish(c)
  \/ GetSelect(c) \/ ListSelect(c) \/ Return(c)

\* The engine, its calls made one after the other, with a database and
\* lifecycle events that answer, and with actions that may never settle:
\* executeActions awaits an action with nothing that bounds the wait.
SpecSeqHang == SpecSeq /\ \A c \in Calls : WF_vars(EngineStep(c) /\ OneAtATime')

\* C22: every startWorkflow and executeTransition call that has started comes
\* to its end, also when an action it awaits never answers.
C22_CallsEnd ==
  \A c \in Calls :
    (InProgress(c) /\ calls[c].op \in {"start", "transition"}) ~> Done(c)

\* C23: a step of getWorkflowInstance or getWorkflowInstancesForEntity leaves
\* every instance of the cache with the currentState, status, data and
\* history it had (the history compared entry by entry on state and
\* transition).
C23_ReadsChangeNothing ==
  [][\A c \in Calls :
       (calls[c].op \in {"get", "list"} /\ calls'[c] # calls[c]) =>
         \A id \in DOMAIN workflowInstances :
           LET Seen(i) == <<i.currentState, i.status, i.data,
                            [k \in 1..Len(i.history) |->
                               <<i.history[k].state, i.history[k].transition>>]>>
           IN /\ id \in DOMAIN workflowInstances'
              /\ Seen(Cached(id)') = Seen(Cached(id))]_vars

\* C24: the row a save has written, read back the way getWorkflowInstance
\* reads it (through mapDatabaseInstanceToObject on postgres, the document
\* itself on mongodb), is the instance that was saved, field for field.
C24_RoundTrip ==
  [][\A c \in Calls :
       (calls[c].pc = "save_write" /\ db' # db) =>
         LET row == db'[calls[c].wr.row.id]
             read == IF database = "postgres" THEN mapDatabaseInstanceToObject(row) ELSE row
         IN read = objs[calls[c].cur]]_vars

\* C25: evaluating the guard of a transition changes nothing: in the step in
\* which an executeTransition call looks its transition up and evaluates the
\* guard, the data of the instance and every other object stay as they were.
C25_GuardIsPure ==
  [][\A c \in Calls :
       ( /\ calls[c].pc = "idle" /\ calls'[c].op = "transition"
         /\ calls'[c].inst # 0 /\ ~calls'[c].committed )
         => /\ objs' = objs
            /\ db' = db /\ workflows' = workflows
            /\ workflowInstances' = workflowInstances]_vars

\* C26: engines are isolated.  No step changes the instances of more than one
\* engine, and the instances made for one start command, counted over all
\* engines, are at most one.
C26_EnginesIsolated ==
  [][ /\ \A e, f \in Engines :
           (e # f /\ engineInstances'[e] # engineInstances[e])
             => engineInstances'[f] = engineInstances[f]
      /\ \A k \in 1..Len(commands') :
           commands'[k].type = "start"
             => Cardinality({i \in UNION {engineInstances'[e] : e \in Engines} :
                               i.command = k}) <= 1 ]_vars

\* C27: the terminal fields go with the status.  An active instance has no
\* completedAt, result, cancelledAt or cancelReason; a completed one has
\* completedAt and result and neither cancelledAt nor cancelReason; a
\* cancelled one has cancelledAt and cancelReason and neither completedAt nor
\* result.  (A field is unset when it is undefined or null.)
C27_TerminalFields ==
  \A r \in DOMAIN objs :
    LET i == objs[r]
        Unset(x) == x \in {Undefined, Null}
        NoResult == i.result.t \in {"undefined", "null"}
    IN /\ i.status = "active" =>
            /\ Unset(i.completedAt) /\ NoResult
            /\ Unset(i.cancelledAt) /\ Unset(i.cancelReason)
       /\ i.status = "completed" =>
            /\ ~Unset(i.completedAt) /\ ~NoResult
            /\ Unset(i.cancelledAt) /\ Unset(i.cancelReason)
       /\ i.status = "cancelled" =>
            /\ ~Unset(i.cancelledAt) /\ ~Unset(i.cancelReason)
            /\ Unset(i.completedAt) /\ NoResult


\* C28: a lifecycle event is handed to publishEvent only once the table
\* holds the state it reports (for workflow:started the first state of the
\* instance, otherwise its current state and the status the event stands
\* for), its instanceId, workflowId and entityId are those of that instance,
\* it is published as it was built, and a call that fails before or in its
\* save publishes no event of the operation that failed.
C28_PublishedAfterPersisted ==
  [][\A c \in Calls :
       LET e == calls'[c].event
           EventOf(frame) == CASE frame = "start" -> "workflow:started"
                               [] frame = "transition" -> "workflow:transitioned"
                               [] frame = "complete" -> "workflow:completed"
                               [] OTHER -> "workflow:cancelled"
       IN /\ (calls[c].event = NoEvent /\ e # NoEvent) =>
               /\ e.instanceId \in DOMAIN db'
               /\ LET row == db'[e.instanceId]
                  IN /\ e.workflowId = row.workflowId /\ e.entityId = row.entityId
                     /\ e.type = "workflow:started" => row.history[1].state = e.state
                     /\ e.type # "workflow:started" => row.currentState = e.state
                     /\ e.type = "workflow:completed" => row.status = "completed"
                     /\ e.type = "workflow:cancelled" => row.status = "cancelled"
          /\ Len(calls'[c].emitted) > Len(calls[c].emitted) =>
               calls[c].event # NoEvent /\ calls'[c].emitted = Append(calls[c].emitted, calls[c].event)
          /\ (calls[c].pc \in {"idle", "save_select", "save_write"} /\ calls'[c].pc = "done"
                /\ calls'[c].result # "ok") =>
               \A k \in 1..Len(calls'[c].emitted) : calls'[c].emitted[k].type # EventOf(calls'[c].frame)
    ]_vars


\* C29: when an action that does not say 'continue' fails, the call ends at
\* once with ActionFailed: the failing action is the last entry of its log
\* (no later action of the list and no later hook list runs), the step
\* writes no row, sends no write and builds no event, a failing
\* executeTransition has published no workflow:transitioned event and has
\* not reached its save, and the finished call does nothing more.  A failure
\* is passed over only for an action that says 'continue'.
C29_AbortStopsTheCall ==
  [][\A c \in Calls :
       LET rec == calls[c]
           after == calls'[c]
       IN /\ Len(after.swallowed) > Len(rec.swallowed) =>
               rec.hooks[rec.idx].errorBehavior = "continue"
          /\ (rec.pc = "hook" /\ after.result = "ActionFailed") =>
               /\ after.pc = "done"
               /\ after.ran = Append(rec.ran, HookAt(rec))
               /\ after.emitted = rec.emitted /\ after.event = NoEvent /\ after.wr = NoWrite
               /\ db' = db
               /\ rec.frame = "transition" =>
                    /\ rec.phase \in {"exit", "actions", "entry"}
                    /\ \A k \in 1..Len(after.emitted) : after.emitted[k].type # "workflow:transitioned"
          /\ (rec.pc = "done" /\ rec.result = "ActionFailed" /\ after.pc # "idle") =>
               after.pc = "done" /\ after.ran = rec.ran /\ after.emitted = rec.emitted
    ]_vars

\* A call has failed in the first of the two actions of a transition: the
\* second action and the entry hooks of the target state have not run.
C29_Witness ==
  \E c \in Calls :
    /\ Done(c) /\ calls[c].result = "ActionFailed" /\ calls[c].frame = "transition"
    /\ calls[c].phase = "actions" /\ calls[c].idx = 1 /\ Len(calls[c].hooks) = 2
    /\ calls[c].emitted = <<>> /\ ~calls[c].committed


\* C30: with the calls made one after the other, an executeTransition call
\* that fails with ActionFailed before its commit, in the exit actions of
\* the current state or in the actions of the transition, leaves the
\* currentState, data, history and updatedAt of the instance as they were
\* when it was called.
C30_AbortBeforeCommitChangesNothing ==
  \A c \in Calls :
    (Done(c) /\ calls[c].op = "transition" /\ calls[c].result = "ActionFailed"
       /\ calls[c].phase \in {"exit", "actions"})
      => LET i == objs[calls[c].inst]
             pre == calls[c].pre
         IN /\ i.currentState = pre.currentState
            /\ i.data = pre.data
            /\ i.history = pre.history
            /\ i.updatedAt = pre.updatedAt


\* C31: a lifecycle event other than workflow:started is emitted for an
\* instance only after workflow:started has been emitted for it, and the
\* workflow:completed event an executeTransition call publishes follows the
\* workflow:transitioned event of that call directly.
C31_EventOrder ==
  [][\A c \in Calls :
       LET before == calls[c].emitted
           after == calls'[c].emitted
           e == after[Len(after)]
       IN Len(after) > Len(before) =>
            /\ e.type # "workflow:started" => published[e.instanceId].started
            /\ (calls[c].op = "transition" /\ e.type = "workflow:completed") =>
                 /\ Len(before) >= 1
                 /\ before[Len(before)].type = "workflow:transitioned"
    ]_vars


\* C32: whenever no call on an instance is in flight, the table holds a row
\* for every instance in the cache, and the cached object has the
\* currentState, status, data and history of the instance read from that row.
C32_CacheAgreesWithStore ==
  \A id \in DOMAIN workflowInstances :
    Quiescent(id) =>
      /\ id \in DOMAIN db
      /\ LET i == Cached(id)
             stored == IF database = "postgres"
                       THEN mapDatabaseInstanceToObject(db[id]) ELSE db[id]
         IN /\ i.currentState = stored.currentState
            /\ i.status = stored.status
            /\ i.data = stored.data
            /\ i.history = stored.history


\* C33: of the events workflow:completed and workflow:cancelled, at most one
\* is ever emitted for an instance.
C33_OneTerminalEvent ==
  \A id \in Ids : published[id].terminals <= 1


\* C34: whenever no call on an instance is in flight, an instance whose
\* currentState is one of the end states of its definition is not active.
C34_NoActiveInstanceInEndState ==
  \A id \in DOMAIN workflowInstances :
    LET i == Cached(id)
    IN (Quiescent(id) /\ i.workflowId \in DOMAIN workflows
          /\ i.currentState \in Def(i.workflowId).endStates)
         => i.status # "active"


\* C35: the history of every instance is a path of its definition: the first
\* entry is the start state, and every later entry names a transition of the
\* definition that leads from the state of the entry before it to its own.
C35_HistoryIsAPath ==
  \A r \in DOMAIN objs :
    LET i == objs[r]
        history == i.history
    IN i.workflowId \in DOMAIN workflows =>
         LET workflow == Def(i.workflowId)
         IN /\ history[1].state = workflow.startState
            /\ \A k \in 2..Len(history) :
                 \E n \in DOMAIN workflow.transitions :
                   /\ workflow.transitions[n].name = history[k].transition
                   /\ workflow.transitions[n].from = history[k - 1].state
                   /\ workflow.transitions[n].to = history[k].state


\* C36: in every state, also while calls are suspended at their awaits, the
\* state of the last history entry of every instance object, and of every
\* stored row, is its currentState.
C36_LastHistoryIsCurrentState ==
  /\ \A r \in DOMAIN objs :
       /\ Len(objs[r].history) >= 1
       /\ objs[r].history[Len(objs[r].history)].state = objs[r].currentState
  /\ \A id \in DOMAIN db :
       /\ Len(db[id].history) >= 1
       /\ db[id].history[Len(db[id].history)].state = db[id].currentState

\* Two executeTransition calls are suspended on one instance, one of them
\* after its commit and before its save, the other before its commit.
C36_Witness ==
  \E c, d \in Calls :
    /\ c # d /\ calls[c].inst = calls[d].inst /\ calls[c].inst # 0
    /\ calls[c].op = "transition" /\ calls[c].pc = "hook" /\ calls[c].phase = "entry"
    /\ calls[c].committed
    /\ calls[d].op = "transition" /\ calls[d].pc = "hook" /\ ~calls[d].committed
    /\ Len(objs[calls[c].inst].history) >= 2


\* C37: every workflow:transitioned event a call has published names a
\* transition of the definition whose `from` is the event's fromState and
\* whose `to` is the event's toState.
C37_TransitionedEventMatchesTransition ==
  \A c \in Calls :
    \A k \in 1..Len(calls[c].emitted) :
      LET e == calls[c].emitted[k]
      IN (e.type = "workflow:transitioned" /\ e.workflowId \in DOMAIN workflows) =>
           \E n \in DOMAIN Def(e.workflowId).transitions :
             LET t == Def(e.workflowId).transitions[n]
             IN t.name = e.transition /\ t.from = e.fromState /\ t.to = e.state


\* C38: when the last reload read the workflows table as it is now, the
\* registry holds exactly the active definitions, each as its row gives it,
\* and a startWorkflow call for a definition that is not active fails with
\* DefinitionNotFound.
C38_RegistryIsActiveDefinitions ==
  /\ [](loaded = <<workflowRows>> =>
          /\ DOMAIN workflows = DOMAIN workflowRows
          /\ \A w \in DOMAIN workflowRows : workflows[w] = workflowRows[w])
  /\ [][\A c \in Calls :
          (calls[c].pc = "idle" /\ calls'[c].op = "start" /\ loaded = <<workflowRows>>
             /\ calls'[c].workflowId \notin DOMAIN workflowRows)
            => calls'[c].result = "DefinitionNotFound"]_vars

====
